---- MODULE Spec2Model ----
\* A model of classification/imagenet/onnx_to_tensorrt.py: the two helper
\* functions get_batch_sizes and create_optimization_profile, and main() as a
\* sequential program whose position is pc.  The TensorRT SDK, the file system
\* and the ImagenetCalibrator module are the environment: their answers are
\* drawn from small sets, and every call main makes to them is appended to
\* the history variable calls.
EXTENDS Integers, Sequences, FiniteSets, TLC

VARIABLES
    pc,            \* position of main()
    args,          \* the argparse namespace (line 81)
    cache_exists,  \* os.path.exists(args.calibration_cache) (line 117)
    outcome,       \* how the run ended ("running" until it ends)
    exit_status,   \* process exit status, Running until the run ends
    held,          \* context-managed objects entered and not yet exited
    builder,       \* trt.Builder attributes set by main
    config,        \* IBuilderConfig attributes set by main
    network,       \* INetworkDefinition as main sees it
    parser,        \* the OnnxParser: outcome of parse and num_errors
    stdout,        \* lines printed with print()
    calls,         \* SDK / OS / calibrator calls made so far, in order
    pending,       \* batch sizes the profile loop has still to visit (line 159)
    output_file,   \* the file at args.output
    unit_arg,      \* argument of get_batch_sizes in the function-level spec
    unit_result    \* its result (a set), or Pending

vars == <<pc, args, cache_exists, outcome, exit_status, held, builder, config,
          network, parser, stdout, calls, pending, output_file, unit_arg, unit_result>>

\* ---------------------------------------------------------------- bounds
MaxBatch == 5            \* --max-batch-size ranges over 0..MaxBatch in main
MaxErrors == 2           \* parser.num_errors ranges over 0..MaxErrors
MaxLayers == 2           \* network.num_layers ranges over 1..MaxLayers
MaxCalibrationSize == 2  \* --max-calibration-size ranges over 1..this
UnitMaxBatch == 70       \* small arguments of get_batch_sizes: 1..this
MaxDefect == 3           \* large arguments: 2^K - d, d in 0..MaxDefect

\* ------------------------------------------------- Python ints and floats
\* TLC's integers are 32 bits wide; a Python int is not.  A Python int n with
\* 0 <= n <= 2^53 is the record [hi, lo] with n = hi * Limb + lo.
LimbBits == 26
Limb == 2 ^ LimbBits
\* DBL_MANT_DIG: a float has 53 significant bits; every int below 2^53
\* converts to float exactly (math.log2 converts its argument first).
MantissaBits == 53
BigLoExp == 47           \* large arguments use K in BigLoExp..MantissaBits

PyInt(n) == [hi |-> 0, lo |-> n]
ToNat(b) == b.hi * Limb + b.lo
Pow2(i) == IF i < LimbBits THEN [hi |-> 0, lo |-> 2 ^ i]
                           ELSE [hi |-> 2 ^ (i - LimbBits), lo |-> 0]
\* a - d for a small natural d <= a (one borrow at most)
BigMinus(a, d) == IF a.lo >= d THEN [hi |-> a.hi, lo |-> a.lo - d]
                               ELSE [hi |-> a.hi - 1, lo |-> a.lo + Limb - d]
BigLeq(a, b) == a.hi < b.hi \/ (a.hi = b.hi /\ a.lo <= b.lo)

\* n.bit_length() - 1 for a native n >= 1
RECURSIVE NatLog2(_)
NatLog2(n) == IF n <= 1 THEN 0 ELSE 1 + NatLog2(n \div 2)

\* floor(log2 n) of the exact integer n >= 1
FloorLog2(b) == IF b.hi = 0 THEN NatLog2(b.lo) ELSE LimbBits + NatLog2(b.hi)

\* 2^K - n for the least K with n < 2^K, when that gap is below Limb; else Limb
GapToNextPow2(b) ==
    LET K == FloorLog2(b) + 1 IN
    IF K <= LimbBits THEN 2 ^ K - b.lo
    ELSE IF b.hi = 2 ^ (K - LimbBits) - 1 THEN Limb - b.lo
    ELSE Limb

\* ln 2 = 0.693..., as Ln2Num / Ln2Den
Ln2Num == 693
Ln2Den == 1000
\* math.log2(n) is the double nearest to the real log2 n.  With K the least
\* integer above log2 n, the doubles just below K lie in the binade
\* [2^j, 2^(j+1)), j = NatLog2(K - 1), and are 2^(j - 52) apart, so the
\* result is K itself exactly when K - log2 n <= 2^(j - 53), that is when
\* 2^K - n <= ln 2 * 2^(K + j - 53) (to first order in the gap, which is exact
\* for every n < 2^53).  Otherwise the result lies in
\* [K - 1, K).  True when the rounding reaches K.
Log2RoundsUp(b) ==
    LET K == FloorLog2(b) + 1
        j == IF K <= 1 THEN 0 - 1 ELSE NatLog2(K - 1)
        shift == K + j - MantissaBits
        gap == GapToNextPow2(b)
    IN  /\ shift >= 0
        /\ gap >= 1
        /\ gap <= (Ln2Num * 2 ^ shift) \div Ln2Den

\* int(math.log2(n)) for an int n with 1 <= n < 2^53 (line 35)
IntLog2(b) == IF Log2RoundsUp(b) THEN FloorLog2(b) + 1 ELSE FloorLog2(b)

\* --------------------------------------------------------- get_batch_sizes
\* lines 34-39; defined for max_batch_size >= 1 (math.log2 raises ValueError
\* on 0 and on negative numbers)
get_batch_sizes(max_batch_size) ==
    LET max_exponent == IntLog2(max_batch_size)
        batch_sizes == {Pow2(i) : i \in 0..max_exponent}
    IN  batch_sizes \cup {max_batch_size}

\* sorted(S) for a finite set of Python ints
RECURSIVE sorted(_)
sorted(S) ==
    IF S = {} THEN <<>>
    ELSE LET m == CHOOSE x \in S : \A y \in S : BigLeq(x, y)
         IN  <<m>> \o sorted(S \ {m})

\* --------------------------------------------- create_optimization_profile
\* An optional batch_size is <<>> (None) or <<b>>.
None == <<>>

\* Variant of create_optimization_profile that explores a range: the minimum
\* batch is 1 instead of the requested batch size.
create_optimization_profile_ranged(input_name, input_shape, batch_size) ==
    LET b == IF batch_size = None THEN input_shape[1] ELSE batch_size[1]
        shape == IF batch_size = None THEN Tail(input_shape)
                 ELSE IF input_shape[1] = 0 - 1 THEN Tail(input_shape)
                 ELSE input_shape
    IN  [input |-> input_name,
         min |-> <<1>> \o shape,
         opt |-> <<b>> \o shape,
         max |-> <<b>> \o shape]

\* Variant of create_optimization_profile that forgets to drop the leading
\* dimension when no batch size is given (shape = input_shape on line 48).
create_optimization_profile_unsliced(input_name, input_shape, batch_size) ==
    LET b == IF batch_size = None THEN input_shape[1] ELSE batch_size[1]
        shape == IF batch_size = None THEN input_shape
                 ELSE IF input_shape[1] = 0 - 1 THEN Tail(input_shape)
                 ELSE input_shape
    IN  [input |-> input_name,
         min |-> <<b>> \o shape,
         opt |-> <<b>> \o shape,
         max |-> <<b>> \o shape]

\* lines 42-63: the profile handed to config.add_optimization_profile
create_optimization_profile(input_name, input_shape, batch_size) ==
    LET b == IF batch_size = None THEN input_shape[1] ELSE batch_size[1]
        shape == IF batch_size = None THEN Tail(input_shape)
                 ELSE IF input_shape[1] = 0 - 1 THEN Tail(input_shape)
                 ELSE input_shape
        min_batch == b
        opt_batch == b
        max_batch == b
    IN  [input |-> input_name,
         min |-> <<min_batch>> \o shape,
         opt |-> <<opt_batch>> \o shape,
         max |-> <<max_batch>> \o shape]

\* ------------------------------------------------------------ environment
Running == 0 - 1                       \* exit_status of a run still going
WorkspaceSize == 2 ^ 30                \* line 106

\* what parse_known_args can do with the command line (line 81)
NoArgs == [explicit_batch |-> FALSE, fp16 |-> FALSE, int8 |-> FALSE,
           max_batch_size |-> 0, calibration_data |-> "None",
           max_calibration_size |-> 0, preprocess_func |-> "None"]
Args == [explicit_batch : BOOLEAN, fp16 : BOOLEAN, int8 : BOOLEAN,
         max_batch_size : 0..MaxBatch,
         calibration_data : {"None", "", "/data"},
         max_calibration_size : 1..MaxCalibrationSize,
         preprocess_func : {"None", "preprocess_custom"}]

\* Variant of Falsy that tests "is None" instead of truthiness.
Falsy_is_none(s) == s = "None"

\* not args.calibration_data (line 122): None and "" are falsy
Falsy(s) == s \in {"None", ""}

\* the image files found under a calibration directory
DirListing(dir) == IF dir = "/data" THEN <<"0.jpg", "1.jpeg", "2.png">> ELSE <<>>

\* ImagenetCalibrator.get_calibration_files: the directory's image files,
\* capped at max_calibration_size
get_calibration_files(calibration_data, max_calibration_size) ==
    LET l == DirListing(calibration_data)
    IN  SubSeq(l, 1, IF Len(l) < max_calibration_size THEN Len(l)
                     ELSE max_calibration_size)

\* the shapes network.get_input(0).shape can have after a parse
InputShapes == {<<0 - 1, 3, 224, 224>>, <<0 - 1>>, <<4, 3, 224, 224>>, <<7>>}

\* the tensor get_layer(l).get_output(o)
Tensor(l, o) == [layer |-> l, out |-> o]

\* the networks a successful parser.parse can leave: some layers, and the
\* graph outputs the ONNX file declares (possibly none)
ParsedNetworks ==
    LET all == [num_layers : 1..MaxLayers,
                outputs : {<<>>} \cup {<<Tensor(l, 0)>> : l \in 0..(MaxLayers - 1)},
                input_name : {"input"},
                input_shape : InputShapes]
    IN  {n \in all : \A i \in 1..Len(n.outputs) : n.outputs[i].layer < n.num_layers}

EmptyNetwork == [num_layers |-> 0, outputs |-> <<>>, input_name |-> "",
                 input_shape |-> <<>>]
IdleParser == [status |-> "idle", num_errors |-> 0]
NoCalibrator == [attached |-> FALSE, calibration_files |-> <<>>,
                 preprocess_func |-> "None"]

\* the objects the with statement of lines 100-103 binds
Session == {"builder", "network", "config", "parser"}

\* Variant of with_exit in which the parser is created outside the with
\* statement and is never released.
with_exit_leaking(h) == h \ {"builder", "network", "config", "onnx_file",
                             "engine", "output_file"}

\* leaving the with blocks of lines 100-103, 138 and 167: every context
\* manager entered is exited, on return and on any exception alike
with_exit(h) == h \ (Session \cup {"onnx_file", "engine", "output_file"})

\* ------------------------------------------------------------------- Init
Init ==
    /\ pc = "start"
    /\ args = NoArgs
    /\ cache_exists \in BOOLEAN
    /\ outcome = "running"
    /\ exit_status = Running
    /\ held = {}
    /\ builder = [max_batch_size |-> 0]
    /\ config = [max_workspace_size |-> 0, flags |-> {},
                 int8_calibrator |-> NoCalibrator, profiles |-> <<>>]
    /\ network = EmptyNetwork
    /\ parser = IdleParser
    /\ stdout = <<>>
    /\ calls = <<>>
    /\ pending = <<>>
    /\ output_file = [opened |-> 0, data |-> <<>>]
    /\ unit_arg = PyInt(0)
    /\ unit_result = {}

\* the run ends with outcome o and exit status s; the with blocks unwind
Terminate(o, s) ==
    /\ pc' = "done"
    /\ outcome' = o
    /\ exit_status' = s
    /\ held' = with_exit(held)

unitVars == <<unit_arg, unit_result>>

\* ------------------------------------------------------- main: arguments
\* lines 67-81: the command line is accepted
ParseArgsOk ==
    /\ pc = "start"
    /\ \E a \in Args : args' = a
    /\ pc' = "session"
    /\ UNCHANGED <<cache_exists, outcome, exit_status, held, builder, config,
                   network, parser, stdout, calls, pending, output_file, unitVars>>

\* line 81: -h / --help (argparse adds it by default) prints the usage text
\* and exits with status 0
ParseArgsHelp ==
    /\ pc = "start"
    /\ Terminate("help", 0)
    /\ UNCHANGED <<args, cache_exists, builder, config, network, parser, stdout, calls,
                   pending, output_file, unitVars>>

\* line 81: --onnx missing or an ill-typed value: argparse exits with status 2
ParseArgsError ==
    /\ pc = "start"
    /\ Terminate("usage_error", 2)
    /\ UNCHANGED <<args, cache_exists, builder, config, network, parser, stdout, calls,
                   pending, output_file, unitVars>>

\* ---------------------------------------------------------- main: session
\* lines 100-103: the four context managers are entered
OpenSession ==
    /\ pc = "session"
    /\ held' = held \cup Session
    /\ calls' = calls \o <<"trt.Builder", "create_network",
                           "create_builder_config", "trt.OnnxParser">>
    /\ pc' = "configure"
    /\ UNCHANGED <<args, cache_exists, outcome, exit_status, builder, config,
                   network, parser, stdout, pending, output_file, unitVars>>

\* lines 105-110
Configure ==
    /\ pc = "configure"
    /\ builder' = [builder EXCEPT !.max_batch_size = args.max_batch_size]
    /\ config' = [config EXCEPT !.max_workspace_size = WorkspaceSize,
                                !.flags = IF args.fp16 THEN {"FP16"} ELSE {}]
    /\ calls' = calls \o <<"builder.max_batch_size", "config.max_workspace_size">>
                      \o (IF args.fp16 THEN <<"set_flag(FP16)">> ELSE <<>>)
    /\ pc' = "int8"
    /\ UNCHANGED <<args, cache_exists, outcome, exit_status, held, network,
                   parser, stdout, pending, output_file, unitVars>>

\* ------------------------------------------------------ main: calibration
\* line 112: no --int8, the block is skipped
SkipInt8 ==
    /\ pc = "int8"
    /\ ~args.int8
    /\ pc' = "parse"
    /\ UNCHANGED <<args, cache_exists, outcome, exit_status, held, builder,
                   config, network, parser, stdout, calls, pending, output_file, unitVars>>

\* lines 128-132: the pre-processing function handed to the calibrator
PreprocessFunc(a) == IF a.preprocess_func # "None" THEN a.preprocess_func
                     ELSE "preprocess_imagenet"

\* lines 134-135: ImagenetCalibrator(calibration_files=files, ...)
Calibrator(files) == [attached |-> TRUE, calibration_files |-> files,
                      preprocess_func |-> PreprocessFunc(args)]

\* Variant of Int8UseCache that collects the calibration files although the
\* cache exists.
Int8UseCache_collecting ==
    /\ pc = "int8"
    /\ args.int8
    /\ cache_exists
    /\ config' = [config EXCEPT
                    !.flags = @ \cup {"INT8"},
                    !.int8_calibrator =
                        Calibrator(get_calibration_files(args.calibration_data,
                                                         args.max_calibration_size))]
    /\ calls' = calls \o <<"set_flag(INT8)", "os.path.exists",
                           "get_calibration_files", "ImagenetCalibrator">>
    /\ pc' = "parse"
    /\ UNCHANGED <<args, cache_exists, outcome, exit_status, held, builder,
                   network, parser, stdout, pending, output_file, unitVars>>

\* lines 112-119, 128-135: the calibration cache exists
Int8UseCache ==
    /\ pc = "int8"
    /\ args.int8
    /\ cache_exists
    /\ config' = [config EXCEPT !.flags = @ \cup {"INT8"},
                                !.int8_calibrator = Calibrator(<<>>)]
    /\ calls' = calls \o <<"set_flag(INT8)", "os.path.exists", "ImagenetCalibrator">>
    /\ pc' = "parse"
    /\ UNCHANGED <<args, cache_exists, outcome, exit_status, held, builder,
                   network, parser, stdout, pending, output_file, unitVars>>

\* lines 112-123: no cache and no calibration data: ValueError
Int8NoData ==
    /\ pc = "int8"
    /\ args.int8
    /\ ~cache_exists
    /\ Falsy(args.calibration_data)
    /\ config' = [config EXCEPT !.flags = @ \cup {"INT8"}]
    /\ calls' = calls \o <<"set_flag(INT8)", "os.path.exists">>
    /\ Terminate("no_calibration_data", 1)
    /\ UNCHANGED <<args, cache_exists, builder, network, parser, stdout, pending,
                   output_file, unitVars>>

\* lines 112-125, 128-135: no cache, the files come from --calibration-data
Int8Calibrate ==
    /\ pc = "int8"
    /\ args.int8
    /\ ~cache_exists
    /\ ~Falsy(args.calibration_data)
    /\ config' = [config EXCEPT
                    !.flags = @ \cup {"INT8"},
                    !.int8_calibrator =
                        Calibrator(get_calibration_files(args.calibration_data,
                                                         args.max_calibration_size))]
    /\ calls' = calls \o <<"set_flag(INT8)", "os.path.exists",
                           "get_calibration_files", "ImagenetCalibrator">>
    /\ pc' = "parse"
    /\ UNCHANGED <<args, cache_exists, outcome, exit_status, held, builder,
                   network, parser, stdout, pending, output_file, unitVars>>

\* ------------------------------------------------------------ main: parse
\* line 138: open(args.onnx, "rb") raises (no such file)
OnnxOpenFails ==
    /\ pc = "parse"
    /\ calls' = Append(calls, "open(onnx)")
    /\ Terminate("io_error", 1)
    /\ UNCHANGED <<args, cache_exists, builder, config, network, parser, stdout,
                   pending, output_file, unitVars>>

\* lines 138-139: the parser accepts the bytes
ParseOk ==
    /\ pc = "parse"
    /\ \E n \in ParsedNetworks : network' = n
    /\ parser' = [status |-> "ok", num_errors |-> 0]
    /\ calls' = calls \o <<"open(onnx)", "parser.parse">>
    /\ pc' = "mark"
    /\ UNCHANGED <<args, cache_exists, outcome, exit_status, held, builder,
                   config, stdout, pending, output_file, unitVars>>

\* Variant of ParseErrorLines whose loop stops one error short
\* (range(parser.num_errors - 1)).
ParseErrorLines_short(num_errors) ==
    <<[kind |-> "failed_to_parse", index |-> 0]>>
    \o [error \in 1..(num_errors - 1) |-> [kind |-> "parser_error", index |-> error - 1]]

\* lines 140-142: what a failed parse prints
ParseErrorLines(num_errors) ==
    <<[kind |-> "failed_to_parse", index |-> 0]>>
    \o [error \in 1..num_errors |-> [kind |-> "parser_error", index |-> error - 1]]

\* lines 138-143: the parser rejects the bytes
ParseFails ==
    /\ pc = "parse"
    /\ \E num_errors \in 0..MaxErrors :
          /\ parser' = [status |-> "failed", num_errors |-> num_errors]
          /\ stdout' = stdout \o ParseErrorLines(num_errors)
    /\ calls' = calls \o <<"open(onnx)", "parser.parse">>
    /\ Terminate("parse_failed", 1)
    /\ UNCHANGED <<args, cache_exists, builder, config, network, pending,
                   output_file, unitVars>>

\* Variant of ShouldMark that marks the last layer unconditionally.
ShouldMark_always(net) == TRUE

\* line 146: not network.get_output(0), which is None when nothing is marked
ShouldMark(net) == Len(net.outputs) = 0

\* lines 146-148
MarkOutput ==
    /\ pc = "mark"
    /\ IF ShouldMark(network)
       THEN /\ network' = [network EXCEPT
                             !.outputs = Append(@, Tensor(network.num_layers - 1, 0))]
            /\ calls' = Append(calls, "mark_output")
       ELSE UNCHANGED <<network, calls>>
    /\ pc' = "profiles"
    /\ UNCHANGED <<args, cache_exists, outcome, exit_status, held, builder,
                   config, parser, stdout, pending, output_file, unitVars>>

\* --------------------------------------------------------- main: profiles
\* line 150: no --explicit-batch, no profile is created
SkipProfiles ==
    /\ pc = "profiles"
    /\ ~args.explicit_batch
    /\ pc' = "build"
    /\ UNCHANGED <<args, cache_exists, outcome, exit_status, held, builder,
                   config, network, parser, stdout, calls, pending, output_file, unitVars>>

\* line 159: sorted(get_batch_sizes(args.max_batch_size)), as native integers
SortedBatchSizes(max_batch_size) ==
    LET l == sorted(get_batch_sizes(PyInt(max_batch_size)))
    IN  [i \in 1..Len(l) |-> ToNat(l[i])]

\* lines 150-159: dynamic batch dimension, the loop is entered
BeginDynamicProfiles ==
    /\ pc = "profiles"
    /\ args.explicit_batch
    /\ network.input_shape[1] = 0 - 1
    /\ args.max_batch_size >= 1
    /\ pending' = SortedBatchSizes(args.max_batch_size)
    /\ pc' = "loop"
    /\ UNCHANGED <<args, cache_exists, outcome, exit_status, held, builder,
                   config, network, parser, stdout, calls, output_file, unitVars>>

\* line 159 with max_batch_size <= 0: math.log2 raises ValueError (line 35)
BatchSizesError ==
    /\ pc = "profiles"
    /\ args.explicit_batch
    /\ network.input_shape[1] = 0 - 1
    /\ args.max_batch_size < 1
    /\ Terminate("math_domain_error", 1)
    /\ UNCHANGED <<args, cache_exists, builder, config, network, parser, stdout, calls,
                   pending, output_file, unitVars>>

\* Variant of AddDynamicProfile that leaves the loop after its first turn.
AddDynamicProfile_once ==
    /\ pc = "loop"
    /\ pending # <<>>
    /\ LET batch_size == Head(pending) IN
         config' = [config EXCEPT !.profiles =
                       Append(@, create_optimization_profile(
                                     network.input_name, network.input_shape,
                                     <<batch_size>>))]
    /\ calls' = Append(calls, "add_optimization_profile")
    /\ pending' = Tail(pending)
    /\ pc' = "build"
    /\ UNCHANGED <<args, cache_exists, outcome, exit_status, held, builder,
                   network, parser, stdout, output_file, unitVars>>

\* lines 159-160: one turn of the loop
AddDynamicProfile ==
    /\ pc = "loop"
    /\ pending # <<>>
    /\ LET batch_size == Head(pending) IN
         config' = [config EXCEPT !.profiles =
                       Append(@, create_optimization_profile(
                                     network.input_name, network.input_shape,
                                     <<batch_size>>))]
    /\ calls' = Append(calls, "add_optimization_profile")
    /\ pending' = Tail(pending)
    /\ pc' = IF Tail(pending) = <<>> THEN "build" ELSE "loop"
    /\ UNCHANGED <<args, cache_exists, outcome, exit_status, held, builder,
                   network, parser, stdout, output_file, unitVars>>

\* lines 162-164: fixed batch dimension, one profile
AddFixedProfile ==
    /\ pc = "profiles"
    /\ args.explicit_batch
    /\ network.input_shape[1] # 0 - 1
    /\ config' = [config EXCEPT !.profiles =
                     Append(@, create_optimization_profile(
                                   network.input_name, network.input_shape, None))]
    /\ calls' = Append(calls, "add_optimization_profile")
    /\ pc' = "build"
    /\ UNCHANGED <<args, cache_exists, outcome, exit_status, held, builder,
                   network, parser, stdout, pending, output_file, unitVars>>

\* ------------------------------------------------------------ main: build
\* line 167: builder.build_engine returns an engine, which is entered
BuildOk ==
    /\ pc = "build"
    /\ calls' = Append(calls, "build_engine")
    /\ held' = held \cup {"engine"}
    /\ pc' = "open_output"
    /\ UNCHANGED <<args, cache_exists, outcome, exit_status, builder, config,
                   network, parser, stdout, pending, output_file, unitVars>>

\* line 167: the build raises, or returns None and entering it raises
BuildFails ==
    /\ pc = "build"
    /\ calls' = Append(calls, "build_engine")
    /\ Terminate("build_error", 1)
    /\ UNCHANGED <<args, cache_exists, builder, config, network, parser, stdout,
                   pending, output_file, unitVars>>

\* line 167: open(args.output, "wb") creates or truncates the file
OpenOutputOk ==
    /\ pc = "open_output"
    /\ calls' = Append(calls, "open(output)")
    /\ held' = held \cup {"output_file"}
    /\ output_file' = [opened |-> output_file.opened + 1, data |-> <<>>]
    /\ pc' = "write"
    /\ UNCHANGED <<args, cache_exists, outcome, exit_status, builder, config,
                   network, parser, stdout, pending, unitVars>>

\* line 167: open(args.output, "wb") raises
OpenOutputFails ==
    /\ pc = "open_output"
    /\ calls' = Append(calls, "open(output)")
    /\ Terminate("io_error", 1)
    /\ UNCHANGED <<args, cache_exists, builder, config, network, parser, stdout,
                   pending, output_file, unitVars>>

\* Variant of WriteEngine that returns without writing the serialized engine.
WriteEngine_unwritten ==
    /\ pc = "write"
    /\ calls' = Append(calls, "engine.serialize")
    /\ Terminate("ok", 0)
    /\ UNCHANGED <<args, cache_exists, builder, config, network, parser, stdout,
                   pending, output_file, unitVars>>

\* lines 168-169, then the end of main: the interpreter exits with status 0
WriteEngine ==
    /\ pc = "write"
    /\ calls' = calls \o <<"engine.serialize", "f.write">>
    /\ output_file' = [output_file EXCEPT !.data = Append(@, "engine_bytes")]
    /\ Terminate("ok", 0)
    /\ UNCHANGED <<args, cache_exists, builder, config, network, parser, stdout,
                   pending, unitVars>>

Next ==
    \/ ParseArgsOk \/ ParseArgsHelp \/ ParseArgsError
    \/ OpenSession \/ Configure
    \/ SkipInt8 \/ Int8UseCache \/ Int8NoData \/ Int8Calibrate
    \/ OnnxOpenFails \/ ParseOk \/ ParseFails
    \/ MarkOutput
    \/ SkipProfiles \/ BeginDynamicProfiles \/ BatchSizesError
    \/ AddDynamicProfile \/ AddFixedProfile
    \/ BuildOk \/ BuildFails \/ OpenOutputOk \/ OpenOutputFails \/ WriteEngine

Spec == Init /\ [][Next]_vars

\* ------------------------------------------- get_batch_sizes on its own
\* the arguments tried: every n in 1..UnitMaxBatch, and 2^K - d just below
\* the powers of two 2^K, K in BigLoExp..MantissaBits
UnitInputs ==
    {PyInt(n) : n \in 1..UnitMaxBatch}
    \cup {BigMinus(Pow2(K), d) : K \in BigLoExp..MantissaBits, d \in 0..MaxDefect}

InitUnit ==
    /\ pc = "unit"
    /\ args = NoArgs
    /\ cache_exists = FALSE
    /\ outcome = "running"
    /\ exit_status = Running
    /\ held = {}
    /\ builder = [max_batch_size |-> 0]
    /\ config = [max_workspace_size |-> 0, flags |-> {},
                 int8_calibrator |-> NoCalibrator, profiles |-> <<>>]
    /\ network = EmptyNetwork
    /\ parser = IdleParser
    /\ stdout = <<>>
    /\ calls = <<>>
    /\ pending = <<>>
    /\ output_file = [opened |-> 0, data |-> <<>>]
    /\ unit_arg \in UnitInputs
    /\ unit_result = {}

\* one call get_batch_sizes(unit_arg)
CallGetBatchSizes ==
    /\ pc = "unit"
    /\ unit_result' = get_batch_sizes(unit_arg)
    /\ pc' = "unit_done"
    /\ UNCHANGED <<args, cache_exists, outcome, exit_status, held, builder,
                   config, network, parser, stdout, calls, pending, output_file, unit_arg>>

NextUnit == CallGetBatchSizes

SpecUnit == InitUnit /\ [][NextUnit]_vars

\* ================================================================ claims
\* how often the call c was made
Count(c) == Cardinality({i \in 1..Len(calls) : calls[i] = c})
Called(c) == \E i \in 1..Len(calls) : calls[i] = c
\* every call a was made before every call b
Before(a, b) == \A i, j \in 1..Len(calls) :
                   (calls[i] = a /\ calls[j] = b) => i < j
\* the parse succeeded, so network is the parsed network
Parsed == parser.status = "ok"
\* the profile step of lines 150-164 is over
ProfilesDone == pc \in {"build", "open_output", "write"}
                \/ (pc = "done" /\ Called("build_engine"))
Uniform(shape) == [input |-> network.input_name,
                   min |-> shape, opt |-> shape, max |-> shape]

\* ---- C1
\* the powers of two not above n, and n itself
PowersUpTo(n) == {Pow2(i) : i \in {k \in 0..MantissaBits : BigLeq(Pow2(k), n)}}

\* C1: for every max_batch_size >= 1, get_batch_sizes(max_batch_size) is
\* exactly the set of the powers of two 2^i <= max_batch_size together with
\* max_batch_size: it contains 1 and max_batch_size, nothing above
\* max_batch_size, and no non-power-of-two other than max_batch_size.
C1_ExactBatchSizes ==
    pc = "unit_done" =>
        /\ unit_result = PowersUpTo(unit_arg) \cup {unit_arg}
        /\ PyInt(1) \in unit_result
        /\ unit_arg \in unit_result
        /\ \A b \in unit_result : BigLeq(b, unit_arg)

\* ---- C2
\* the batch sizes of the run, as native integers
RunBatchSizes == {ToNat(b) : b \in get_batch_sizes(PyInt(args.max_batch_size))}
DynamicRun == Parsed /\ args.explicit_batch /\ network.input_shape[1] = 0 - 1
                     /\ args.max_batch_size >= 1

\* C2: in an explicit-batch run whose first input has leading dimension -1,
\* the profiles registered are, in ascending order of b, one per element b of
\* get_batch_sizes(max_batch_size) and no others, each with
\* min = opt = max = (b, d1, ..., dn); all of them are registered once the
\* profile step is over.
C2_DynamicProfiles ==
    DynamicRun =>
        LET P == config.profiles
            rest == Tail(network.input_shape)
        IN  /\ \A i \in 1..Len(P) :
                  \E b \in RunBatchSizes : P[i] = Uniform(<<b>> \o rest)
            /\ \A i, j \in 1..Len(P) : i < j => P[i].min[1] < P[j].min[1]
            /\ Count("add_optimization_profile") = Len(P)
            /\ ProfilesDone => {P[i].min[1] : i \in 1..Len(P)} = RunBatchSizes

\* C2 witness: a finished run for (-1,3,224,224) and max batch size 5 that
\* registered the profiles for 1, 2, 4 and 5
C2_Witness ==
    /\ pc = "done" /\ outcome = "ok" /\ DynamicRun
    /\ args.max_batch_size = 5
    /\ network.input_shape = <<0 - 1, 3, 224, 224>>
    /\ Len(config.profiles) = 4
    /\ config.profiles[4].max = <<5, 3, 224, 224>>

\* ---- C3
FixedRun == Parsed /\ args.explicit_batch /\ network.input_shape[1] # 0 - 1

C4_ParseFailure ==
    parser.status = "failed" =>
        /\ pc = "done" /\ outcome = "parse_failed" /\ exit_status = 1
        /\ Cardinality({i \in 1..Len(stdout) : stdout[i].kind = "parser_error"})
               = parser.num_errors
        /\ \A e \in 0..(parser.num_errors - 1) :
               \E i \in 1..Len(stdout) :
                   stdout[i] = [kind |-> "parser_error", index |-> e]
        /\ config.profiles = <<>>
        /\ ~Called("add_optimization_profile")
        /\ ~Called("build_engine")
        /\ ~Called("open(output)")
        /\ output_file = [opened |-> 0, data |-> <<>>]

\* C4 witness: a failed parse with two errors, both printed
C4_Witness ==
    /\ parser = [status |-> "failed", num_errors |-> 2]
    /\ Len(stdout) = 3
    /\ exit_status = 1

\* ---- C5
SdkCalls == {"trt.Builder", "create_network", "create_builder_config",
             "trt.OnnxParser", "builder.max_batch_size",
             "config.max_workspace_size", "set_flag(FP16)", "set_flag(INT8)"}

\* C5 (as stated): with INT8 requested, no cache and no calibration data, the
\* error is raised before any SDK call: no builder, network, config or
\* parser has been created and no SDK setter has been invoked.
C5_RaisedBeforeAnySdkCall ==
    outcome = "no_calibration_data" => \A c \in SdkCalls : ~Called(c)

\* C5 (amended): with INT8 requested, no cache and no calibration data, the
\* run fails with the configuration error (exit status 1), raised inside the
\* build block: the four session objects have been created and the
\* max-batch-size, workspace-size, FP16 (when requested) and INT8 setters
\* invoked, but no calibrator is constructed, the ONNX file is not read or
\* parsed, no profile is registered, nothing is built and no output opened.
C5_RaisedInsideBuildBlock ==
    /\ (pc = "done" /\ args.int8 /\ ~cache_exists
                     /\ args.calibration_data \in {"None", ""})
          => outcome = "no_calibration_data"
    /\ outcome = "no_calibration_data" =>
          /\ args.int8 /\ ~cache_exists /\ args.calibration_data \in {"None", ""}
          /\ exit_status = 1
          /\ calls = <<"trt.Builder", "create_network", "create_builder_config",
                       "trt.OnnxParser", "builder.max_batch_size",
                       "config.max_workspace_size">>
                     \o (IF args.fp16 THEN <<"set_flag(FP16)">> ELSE <<>>)
                     \o <<"set_flag(INT8)", "os.path.exists">>
          /\ builder.max_batch_size = args.max_batch_size
          /\ config.flags = {"INT8"} \cup (IF args.fp16 THEN {"FP16"} ELSE {})
          /\ config.int8_calibrator = NoCalibrator
          /\ parser.status = "idle"
          /\ config.profiles = <<>>
          /\ output_file.opened = 0

\* C5 witness: the error raised for --calibration-data "" with --fp16
C5_Witness ==
    /\ outcome = "no_calibration_data"
    /\ args.calibration_data = ""
    /\ args.fp16
    /\ Called("trt.Builder")

\* ---- C6
EngineDelivered ==
    /\ Parsed
    /\ Count("parser.parse") = 1
    /\ Count("build_engine") = 1
    /\ Count("f.write") = 1
    /\ Before("parser.parse", "build_engine")
    /\ Before("build_engine", "f.write")
    /\ output_file = [opened |-> 1, data |-> <<"engine_bytes">>]

\* C6 (as stated): every run that ends with exit status 0 has parsed the
\* model, then invoked the build once, then written the engine once; no run
\* exits 0 without the engine file written.
C6_ExitZeroMeansWritten == exit_status = 0 => EngineDelivered

\* C6 (amended): every run that ends with exit status 0, other than a
\* -h/--help run which argparse ends with status 0 before the build block,
\* has parsed the model, then invoked the build once, then written the
\* engine once.
C6_ExitZeroPastArgsMeansWritten ==
    (exit_status = 0 /\ outcome # "help") => EngineDelivered

\* C6 witness: a run that ended with status 0 after writing the engine
C6_Witness ==
    /\ exit_status = 0 /\ outcome = "ok"
    /\ output_file.data = <<"engine_bytes">>
    /\ args.explicit_batch

\* ---- C7
\* the INT8 block of lines 112-135 has been passed without raising
PastInt8 == pc \in {"parse", "mark", "profiles", "loop", "build",
                    "open_output", "write"}
            \/ (pc = "done" /\ Called("open(onnx)"))

\* C7: in INT8 mode with an existing cache, get_calibration_files is never
\* called, the calibrator gets an empty file list and the run does not fail
\* for missing calibration data; with no cache and calibration data given,
\* the calibrator gets exactly get_calibration_files(calibration_data,
\* max_calibration_size); without --int8 no calibrator is attached.
C7_CalibrationFiles ==
    /\ (args.int8 /\ cache_exists) =>
          /\ ~Called("get_calibration_files")
          /\ outcome # "no_calibration_data"
          /\ PastInt8 => /\ config.int8_calibrator.attached
                         /\ config.int8_calibrator.calibration_files = <<>>
    /\ (args.int8 /\ ~cache_exists /\ args.calibration_data \notin {"None", ""}
                  /\ PastInt8) =>
          /\ Count("get_calibration_files") = 1
          /\ config.int8_calibrator.attached
          /\ config.int8_calibrator.calibration_files =
                get_calibration_files(args.calibration_data,
                                      args.max_calibration_size)
    /\ ~args.int8 =>
          /\ config.int8_calibrator = NoCalibrator
          /\ ~Called("ImagenetCalibrator")
          /\ ~Called("get_calibration_files")

\* C7 witness: an INT8 run with a cache and no calibration data that built
\* its engine with a calibrator holding no files
C7_Witness ==
    /\ outcome = "ok" /\ args.int8 /\ cache_exists
    /\ args.calibration_data = "None"
    /\ config.int8_calibrator.attached
    /\ config.int8_calibrator.calibration_files = <<>>

\* C7 second witness case: the files collected from --calibration-data
C7_WitnessCollected ==
    /\ outcome = "ok" /\ args.int8 /\ ~cache_exists
    /\ config.int8_calibrator.calibration_files = <<"0.jpg", "1.jpeg">>

\* ---- C8
\* the pipeline step a call belongs to (0: not one of the six steps)
Step(c) == CASE c \in {"trt.Builder", "create_network",
                       "create_builder_config", "trt.OnnxParser"} -> 1
             [] c = "ImagenetCalibrator" -> 2
             [] c = "parser.parse" -> 3
             [] c = "add_optimization_profile" -> 4
             [] c = "build_engine" -> 5
             [] c \in {"engine.serialize", "f.write"} -> 6
             [] OTHER -> 0

\* the number of profiles the run has to register
ProfilesDue == IF ~args.explicit_batch THEN 0
               ELSE IF network.input_shape[1] = 0 - 1 THEN Cardinality(RunBatchSizes)
               ELSE 1

\* C8: the steps of a run occur in pipeline order, each at most once:
\* session, calibrator (INT8 only), parse, profiles, build, serialize and
\* write; the build is invoked only after every profile of the run is
\* registered and the calibrator (when INT8) attached, and no profile is
\* added after the build has started.
C8_PipelineOrder ==
    /\ \A i, j \in 1..Len(calls) :
          (i < j /\ Step(calls[i]) > 0 /\ Step(calls[j]) > 0)
              => Step(calls[i]) <= Step(calls[j])
    /\ \A i, j \in 1..Len(calls) :
          (i < j /\ calls[i] = calls[j]) => calls[i] = "add_optimization_profile"
    /\ Called("build_engine") =>
          /\ pending = <<>>
          /\ Len(config.profiles) = ProfilesDue
          /\ Count("add_optimization_profile") = ProfilesDue
          /\ args.int8 => (config.int8_calibrator.attached
                           /\ Called("ImagenetCalibrator"))
          /\ Called("trt.OnnxParser") /\ Called("parser.parse")
    /\ Called("f.write") => Called("build_engine")

\* C8 witness: an INT8 run with a dynamic batch that went through all six
\* steps and registered several profiles
C8_Witness ==
    /\ outcome = "ok" /\ args.int8 /\ DynamicRun
    /\ Len(config.profiles) >= 3
    /\ Called("ImagenetCalibrator") /\ Called("f.write")

\* ---- C9
\* C9: however a run leaves the build block (normal completion, the
\* missing-calibration-data error, the exit on parse failure, an error from
\* the build or from a file), the builder, network, config and parser are
\* released and the output file, if opened, is closed; while the block is
\* running the four session objects are held.
C9_Released ==
    /\ pc = "done" => held = {}
    /\ pc \in {"configure", "int8", "parse", "mark", "profiles", "loop",
               "build", "open_output", "write"} => Session \subseteq held
    /\ pc = "write" => {"engine", "output_file"} \subseteq held

\* C9 witness: a run that opened the output file, ended, and holds nothing
C9_Witness ==
    /\ pc = "done" /\ outcome = "ok"
    /\ output_file.opened = 1
    /\ held = {}

\* C9 second witness case: the build failed and everything is released
C9_WitnessBuildError ==
    /\ pc = "done" /\ outcome = "build_error"
    /\ Called("trt.Builder")
    /\ held = {}

\* ---- C10
\* C10: after a successful parse the script marks the first output of the
\* last layer (index num_layers - 1) exactly when the network has no output
\* at index 0; otherwise it marks nothing and the outputs stay as parsed.
\* No other step changes the outputs.
C10_MarkOutput ==
    [][/\ pc = "mark" =>
            IF Len(network.outputs) = 0
            THEN /\ network'.outputs = <<Tensor(network.num_layers - 1, 0)>>
                 /\ Count("mark_output")' = 1
            ELSE /\ network'.outputs = network.outputs
                 /\ Count("mark_output")' = 0
       /\ pc \notin {"parse", "mark"} => network' = network]_vars

\* C10 witness: a two-layer network parsed without outputs, after the
\* marking step
C10_Witness ==
    /\ pc = "profiles"
    /\ network.num_layers = 2
    /\ network.outputs = <<Tensor(1, 0)>>
    /\ Called("mark_output")

\* C10 second witness case: an output declared by the model, left alone
C10_WitnessUnchanged ==
    /\ pc = "profiles"
    /\ network.num_layers = 2
    /\ network.outputs = <<Tensor(0, 0)>>
    /\ ~Called("mark_output")

====
